---- MODULE Spec2Model ----
(***************************************************************************)
(* A model of gplearn/arg.py: the input views BaseInputs, ListInputs and   *)
(* DictInputs, their recursive flattening, ArgSampler.sample and           *)
(* ConstantFNInput.value.                                                  *)
(*                                                                         *)
(* Python objects are modelled as follows.                                 *)
(*   - An index, a key, a path or an element is a record                   *)
(*     [kind, s, n]: None, an int, a str, or a reference to a view object  *)
(*     (kind "view", n the object's address in heap).                      *)
(*   - heap is the sequence of the view objects constructed so far; a      *)
(*     view's address is its position in heap.                             *)
(*   - A list is a sequence; a dict (frozendict) is the sequence of its    *)
(*     items <<key, value>> in insertion order, keys pairwise distinct.    *)
(*   - The outcome of a call is [exc, val]: exc = "ok" and the returned    *)
(*     value, or the name of the exception raised.                         *)
(***************************************************************************)
EXTENDS Integers, Sequences, FiniteSets, TLC

VARIABLES
    heap,             \* the view objects constructed so far
    res,              \* the last call on the views and its outcome
    arg_range_dict,   \* ArgSampler.arg_range_dict
    kwarg_range_dict, \* ArgSampler.kwarg_range_dict
    samples,          \* the last call of ArgSampler.sample and its outcome
    cfi,              \* the ConstantFNInput object: fn, args, kwargs
    fnenv,            \* the wrapped callable's environment: counter and call log
    returned          \* the values the accesses of ConstantFNInput.value returned

vars == <<heap, res, arg_range_dict, kwarg_range_dict, samples, cfi, fnenv, returned>>

viewVars == <<heap, res>>
samplerVars == <<arg_range_dict, kwarg_range_dict, samples>>
lazyVars == <<cfi, fnenv, returned>>

-----------------------------------------------------------------------------
(* Bounds of the model *)

\* views constructed in the list specification
MaxListViews == 3
\* views constructed in the mixed list/dict specification
MaxViews == 1
\* views constructed in the dict specification
MaxDictViews == 4
\* views constructed in the specification with caller-side list mutation
MaxCyclicViews == 2
\* elements of a list or dict handed to a constructor
MaxLen == 2
\* Python's recursion limit (sys.getrecursionlimit()), scaled down
RecursionLimit == 5
\* largest n passed to ArgSampler.sample
MaxN == 2
\* accesses of ConstantFNInput.value
MaxAccess == 4

-----------------------------------------------------------------------------
(* Python values *)

PyNone == [kind |-> "none", s |-> "", n |-> 0]
PyInt(i) == [kind |-> "int", s |-> "", n |-> i]
PyStr(t) == [kind |-> "str", s |-> t, n |-> 0]
PyRef(a) == [kind |-> "view", s |-> "", n |-> a]

Ok(v) == [exc |-> "ok", val |-> v]
Raise(e) == [exc |-> e, val |-> PyNone]

Digit(d) ==
    CASE d = 0 -> "0" [] d = 1 -> "1" [] d = 2 -> "2" [] d = 3 -> "3"
      [] d = 4 -> "4" [] d = 5 -> "5" [] d = 6 -> "6" [] d = 7 -> "7"
      [] d = 8 -> "8" [] d = 9 -> "9"

RECURSIVE DecStr(_)
DecStr(i) == IF i < 10 THEN Digit(i) ELSE DecStr(i \div 10) \o Digit(i % 10)

\* str(i) of an int
str(i) == IF i < 0 THEN "-" \o DecStr(-i) ELSE DecStr(i)

\* "{}".format(x)
format(x) ==
    CASE x.kind = "int" -> str(x.n)
      [] x.kind = "str" -> x.s
      [] x.kind = "none" -> "None"
      [] x.kind = "view" -> "<view>"

\* seq[idx] of a Python list
ListIndex(seq, idx) ==
    IF idx.kind # "int" THEN Raise("TypeError")
    ELSE IF 0 <= idx.n /\ idx.n < Len(seq) THEN Ok(seq[idx.n + 1])
    ELSE IF -Len(seq) <= idx.n /\ idx.n < 0 THEN Ok(seq[Len(seq) + idx.n + 1])
    ELSE Raise("IndexError")

\* list(d.keys()), list(d.values()) of a dict
DictKeys(items) == [i \in 1..Len(items) |-> items[i][1]]
DictValues(items) == [i \in 1..Len(items) |-> items[i][2]]

\* d[k] of a dict for a key it holds
DictLookup(items, k) == items[CHOOSE i \in 1..Len(items) : items[i][1] = k][2]

\* x in seq
In(x, seq) == \E i \in 1..Len(seq) : seq[i] = x

\* {k: v for k, v in zip(ks, vs)}: a repeated key keeps its first place and takes
\* the last value
RECURSIVE DictFromZip(_, _, _)
DictFromZip(ks, vs, items) ==
    IF ks = <<>> \/ vs = <<>> THEN items
    ELSE LET k == Head(ks)
             v == Head(vs)
             next == IF In(k, DictKeys(items))
                     THEN [i \in 1..Len(items) |->
                             IF items[i][1] = k THEN <<k, v>> ELSE items[i]]
                     ELSE Append(items, <<k, v>>)
         IN  DictFromZip(Tail(ks), Tail(vs), next)

-----------------------------------------------------------------------------
(* The views *)

\* the types argument of a constructor: None, or a list of type tags
NoTypes == [given |-> FALSE, tags |-> <<>>]
Types(t) == [given |-> TRUE, tags |-> t]

\* type(value)
type(h, v) ==
    CASE v.kind = "int" -> "int"
      [] v.kind = "str" -> "str"
      [] v.kind = "none" -> "NoneType"
      [] v.kind = "view" -> h[v.n].cls

\* isinstance(x, BaseInputs)
IsBaseInputs(x) == x.kind = "view"

\* types or [type(value) for value in values]
TypesOr(h, types, values) ==
    IF types.given /\ types.tags # <<>> THEN types.tags
    ELSE [i \in 1..Len(values) |-> type(h, values[i])]

\* ListInputs(values, types): BaseInputs.__init__
ListInputs(h, values, types) ==
    [cls |-> "ListInputs", values |-> values, keys |-> <<>>,
     types |-> TypesOr(h, types, values)]

\* DictInputs(values, types): values the items of the dict
DictInputs(h, values, types) ==
    [cls |-> "DictInputs", values |-> values, keys |-> DictKeys(values),
     types |-> TypesOr(h, types, DictValues(values))]

\* len(view)
len(view) == Len(view.values)

\* a ListInputs.__getitem__ that reads one place too far
ListGetItem_shifted(view, idx) ==
    IF idx.kind = "int" THEN ListIndex(view.values, PyInt(idx.n + 1))
    ELSE ListIndex(view.values, idx)

\* ListInputs.__getitem__
ListGetItem(view, idx) == ListIndex(view.values, idx)

\* a DictInputs.__getitem__ that tries the position before the key
DictGetItem_position_first(view, idx) ==
    LET k == ListIndex(view.keys, idx)
    IN  IF k.exc = "ok" THEN Ok(DictLookup(view.values, k.val))
        ELSE IF In(idx, view.keys) THEN Ok(DictLookup(view.values, idx))
        ELSE k

\* DictInputs.__getitem__
DictGetItem(view, idx) ==
    IF In(idx, view.keys) THEN Ok(DictLookup(view.values, idx))
    ELSE LET k == ListIndex(view.keys, idx)
         IN  IF k.exc = "ok" THEN Ok(DictLookup(view.values, k.val)) ELSE k

\* view[idx]
GetItem(view, idx) ==
    IF view.cls = "DictInputs" THEN DictGetItem(view, idx) ELSE ListGetItem(view, idx)

\* ListInputs.__iter__: the pairs the generator yields
ListIter(view) == [i \in 1..len(view) |-> <<PyInt(i - 1), ListGetItem(view, PyInt(i - 1)).val>>]

\* a DictInputs.__iter__ that walks the positions instead of the keys
DictIter_positions(view) ==
    [i \in 1..Len(view.keys) |-> <<PyInt(i - 1), DictLookup(view.values, view.keys[i])>>]

\* DictInputs.__iter__: the pairs the generator yields
DictIter(view) == [i \in 1..Len(view.keys) |-> <<view.keys[i], DictGetItem(view, view.keys[i]).val>>]

\* iter(view)
Iter(view) == IF view.cls = "DictInputs" THEN DictIter(view) ELSE ListIter(view)

\* a build_idx that joins suffix and prefix the wrong way round
build_idx_swapped(i, prefix, suffix) ==
    IF prefix = PyNone
    THEN IF suffix = PyNone THEN PyStr(str(i)) ELSE suffix
    ELSE LET sfx == IF suffix = PyNone THEN PyStr(str(i)) ELSE suffix
         IN  PyStr(format(sfx) \o "_" \o format(prefix))

\* a build_idx that hands back the suffix whenever there is no prefix
build_idx_no_default(i, prefix, suffix) ==
    IF prefix = PyNone
    THEN suffix
    ELSE LET sfx == IF suffix = PyNone THEN PyStr(str(i)) ELSE suffix
         IN  PyStr(format(prefix) \o "_" \o format(sfx))

\* BaseInputs.build_idx
build_idx(i, prefix, suffix) ==
    IF prefix = PyNone
    THEN IF suffix = PyNone THEN PyStr(str(i)) ELSE suffix
    ELSE LET sfx == IF suffix = PyNone THEN PyStr(str(i)) ELSE suffix
         IN  PyStr(format(prefix) \o "_" \o format(sfx))

\* the outcome of the walk: the two lists, or the exception
Walk(idxs, values) == [exc |-> "ok", idxs |-> idxs, values |-> values]
WalkRaise(e) == [exc |-> e, idxs |-> <<>>, values |-> <<>>]

\* BaseInputs._flatten; depth counts the Python frames of the recursion, and
\* the walk ends in RecursionError when they exceed the interpreter's limit
RECURSIVE _flatten(_, _, _, _)
RECURSIVE _flatten_loop(_, _, _, _, _, _)
_flatten(h, inputs, idx, depth) ==
    IF depth > RecursionLimit THEN WalkRaise("RecursionError")
    ELSE IF IsBaseInputs(inputs)
    THEN _flatten_loop(h, Iter(h[inputs.n]), idx, depth, 1, Walk(<<>>, <<>>))
    ELSE Walk(<<PyNone>>, <<inputs>>)

\* the for loop of _flatten from its i-th pair on (i counts from 1; enumerate
\* counts from 0)
_flatten_loop(h, pairs, idx, depth, i, acc) ==
    IF i > Len(pairs) THEN acc
    ELSE LET nested == _flatten(h, pairs[i][2], pairs[i][1], depth + 1)
         IN  IF nested.exc # "ok" THEN nested
             ELSE _flatten_loop(h, pairs, idx, depth, i + 1,
                    Walk(acc.idxs \o [j \in 1..Len(nested.idxs) |->
                                        build_idx(i - 1, idx, nested.idxs[j])],
                         acc.values \o nested.values))

\* ListInputs.flatten: the walk and the view returned
ListFlattenCall(h, inputs) ==
    LET w == _flatten(h, inputs, PyNone, 1)
    IN  [walk |-> w,
         out |-> IF w.exc = "ok" THEN ListInputs(h, w.values, NoTypes)
                 ELSE ListInputs(h, <<>>, NoTypes)]

\* DictInputs.flatten: the walk and the view returned
DictFlattenCall(h, inputs) ==
    LET w == _flatten(h, inputs, PyNone, 1)
    IN  [walk |-> w,
         out |-> IF w.exc = "ok"
                 THEN DictInputs(h, DictFromZip(w.idxs, w.values, <<>>), NoTypes)
                 ELSE DictInputs(h, <<>>, NoTypes)]

-----------------------------------------------------------------------------
(* The inputs handed to the views *)

\* the leaf stored at position p of the list or dict given to the a-th constructor
LeafAt(a, p) == PyInt(10 * a + p)

\* the views no view of h holds as an element
Unnested(h) ==
    {b \in 1..Len(h) :
        \A a \in 1..Len(h) : \A p \in 1..Len(h[a].values) :
            (IF h[a].cls = "DictInputs" THEN h[a].values[p][2] ELSE h[a].values[p]) # PyRef(b)}

\* the elements a caller can put at position p: a fresh leaf, or a view it holds;
\* nested is "none" (leaves only), "tree" (a view is nested in one place at most)
\* or "any"
Elements(h, a, p, nested) ==
    {LeafAt(a, p)} \cup
        (CASE nested = "none" -> {}
           [] nested = "tree" -> {PyRef(b) : b \in Unnested(h)}
           [] nested = "any" -> {PyRef(b) : b \in 1..Len(h)})

\* the lists of n elements a caller can build
ListsOf(h, a, n, nested) ==
    {vs \in [1..n -> UNION {Elements(h, a, p, nested) : p \in 1..n}] :
        /\ \A p \in 1..n : vs[p] \in Elements(h, a, p, nested)
        /\ nested = "tree" =>
              \A p, q \in 1..n : (p # q /\ vs[p].kind = "view") => vs[p] # vs[q]}

\* the dicts of n items over keySet a caller can build
DictsOf(h, a, n, nested, keySet) ==
    {[p \in 1..n |-> <<ks[p], vs[p]>>] :
        ks \in {f \in [1..n -> keySet] : \A p, q \in 1..n : p # q => f[p] # f[q]},
        vs \in ListsOf(h, a, n, nested)}

\* types arguments: none, or a list of one tag
TypeArgsNone == {NoTypes}
TypeArgsAny == {NoTypes} \cup {Types([i \in 1..m |-> "float"]) : m \in 0..1}

\* keys of the dicts of the mixed specification and of the dict specification
MixedKeys == {PyStr("a"), PyStr("b"), PyInt(0)}
PathKeys == {PyStr("0"), PyStr("0_0")}

\* index arguments of get
IntArgs == {PyInt(i) : i \in -(MaxLen + 1)..(MaxLen + 1)}
IdxArgs == IntArgs \cup MixedKeys \cup {PyStr("zz"), PyNone}

NoCall == [op |-> "none", view |-> 0, arg |-> PyNone, out |-> PyNone]

-----------------------------------------------------------------------------
(* The operations on the views *)

\* ListInputs(values, types=types)
NewList(cap, nested, typeArgs) ==
    /\ Len(heap) < cap
    /\ \E n \in 0..MaxLen :
       \E values \in ListsOf(heap, Len(heap) + 1, n, nested) :
       \E types \in typeArgs :
          /\ heap' = Append(heap, ListInputs(heap, values, types))
          /\ res' = [op |-> "new", view |-> Len(heap) + 1, arg |-> PyNone,
                     out |-> types]
    /\ UNCHANGED <<samplerVars, lazyVars>>

\* DictInputs(values, types=types)
NewDict(cap, nested, keySet, typeArgs) ==
    /\ Len(heap) < cap
    /\ \E n \in 0..MaxLen :
       \E values \in DictsOf(heap, Len(heap) + 1, n, nested, keySet) :
       \E types \in typeArgs :
          /\ heap' = Append(heap, DictInputs(heap, values, types))
          /\ res' = [op |-> "new", view |-> Len(heap) + 1, arg |-> PyNone,
                     out |-> types]
    /\ UNCHANGED <<samplerVars, lazyVars>>

\* view[idx]
Get(idxArgs) ==
    /\ \E v \in 1..Len(heap) : \E idx \in idxArgs :
          res' = [op |-> "get", view |-> v, arg |-> idx, out |-> GetItem(heap[v], idx)]
    /\ UNCHANGED <<heap, samplerVars, lazyVars>>

\* list(iter(view))
Iterate ==
    /\ \E v \in 1..Len(heap) :
          res' = [op |-> "iter", view |-> v, arg |-> PyNone, out |-> Iter(heap[v])]
    /\ UNCHANGED <<heap, samplerVars, lazyVars>>

\* the arguments of flatten: a view, or a leaf
FlattenArgs == {PyRef(v) : v \in 1..Len(heap)} \cup {PyInt(7)}

\* ListInputs.flatten(inputs)
ListFlatten ==
    /\ \E inputs \in FlattenArgs :
          res' = [op |-> "ListInputs.flatten", view |-> inputs.n, arg |-> inputs,
                  out |-> ListFlattenCall(heap, inputs)]
    /\ UNCHANGED <<heap, samplerVars, lazyVars>>

\* DictInputs.flatten(inputs)
DictFlatten ==
    /\ \E inputs \in FlattenArgs :
          res' = [op |-> "DictInputs.flatten", view |-> inputs.n, arg |-> inputs,
                  out |-> DictFlattenCall(heap, inputs)]
    /\ UNCHANGED <<heap, samplerVars, lazyVars>>

\* the caller appends to a list it handed to ListInputs, which holds the same
\* list object (self.values = values)
CallerAppend ==
    /\ \E v \in 1..Len(heap) : \E x \in {PyRef(b) : b \in 1..Len(heap)} :
          /\ heap[v].cls = "ListInputs"
          /\ Len(heap[v].values) < MaxLen
          /\ heap' = [heap EXCEPT ![v].values = Append(@, x)]
          /\ res' = [op |-> "append", view |-> v, arg |-> x, out |-> PyNone]
    /\ UNCHANGED <<samplerVars, lazyVars>>

-----------------------------------------------------------------------------
(* Specifications of the views *)

SamplerIdle ==
    /\ arg_range_dict = <<>>
    /\ kwarg_range_dict = <<>>
    /\ samples = [n |-> 0, exc |-> "none", val |-> <<>>]

LazyIdle ==
    /\ cfi = [fn |-> "none", args |-> <<>>, kwargs |-> 0]
    /\ fnenv = [counter |-> 0, log |-> <<>>]
    /\ returned = <<>>

Init ==
    /\ heap = <<>>
    /\ res = NoCall
    /\ SamplerIdle
    /\ LazyIdle

\* views of both kinds, with inferred and with explicit types
Next ==
    \/ NewList(MaxViews, "tree", TypeArgsAny)
    \/ NewDict(MaxViews, "tree", MixedKeys, TypeArgsAny)
    \/ Get(IdxArgs)
    \/ Iterate
    \/ ListFlatten
    \/ DictFlatten

Spec == Init /\ [][Next]_vars

\* nested ListInputs, a view nested in one place at most
NextList ==
    \/ NewList(MaxListViews, "tree", TypeArgsNone)
    \/ ListFlatten

SpecList == Init /\ [][NextList]_vars

\* nested DictInputs with string keys, a view nested in one place at most
NextDict ==
    \/ NewDict(MaxDictViews, "tree", PathKeys, TypeArgsNone)
    \/ DictFlatten

SpecDict == Init /\ [][NextDict]_vars

\* ListInputs over lists the caller goes on appending to
NextCyclic ==
    \/ NewList(MaxCyclicViews, "any", TypeArgsNone)
    \/ CallerAppend
    \/ ListFlatten

SpecCyclic == Init /\ [][NextCyclic]_vars

-----------------------------------------------------------------------------
(* ArgSampler *)

\* the values random_state.uniform(low, high) can return, on the integer grid
uniform(range) == range[1]..(range[2] - 1)

\* {name: random_state.uniform(*range) for name, range in range_dict.items()}
Draws(range_dict) ==
    {f \in [DOMAIN range_dict -> UNION {uniform(range_dict[k]) : k \in DOMAIN range_dict}] :
        \A k \in DOMAIN range_dict : f[k] \in uniform(range_dict[k])}

\* {**args, **kwargs}
Merge(args, kwargs) ==
    [k \in DOMAIN args \cup DOMAIN kwargs |->
        IF k \in DOMAIN kwargs THEN kwargs[k] ELSE args[k]]

\* one round of the loop of ArgSampler.sample: args and kwargs are both drawn
\* over self.arg_range_dict
SampleOne(self_arg_range_dict, self_kwarg_range_dict) ==
    {Merge(args, kwargs) : args \in Draws(self_arg_range_dict),
                           kwargs \in Draws(self_arg_range_dict)}

\* ArgSampler.sample: the lists it can return
sample(self_arg_range_dict, self_kwarg_range_dict, n) ==
    [1..n -> SampleOne(self_arg_range_dict, self_kwarg_range_dict)]

ArgNames == {"a", "b"}
KwargNames == {"a", "k"}
Ranges == {<<0, 2>>, <<5, 7>>}
RangeDicts(names) == UNION {[d -> Ranges] : d \in SUBSET names}

\* ArgSampler.__init__
InitSampler ==
    /\ arg_range_dict \in RangeDicts(ArgNames)
    /\ kwarg_range_dict \in RangeDicts(KwargNames)
    /\ samples = [n |-> 0, exc |-> "none", val |-> <<>>]
    /\ heap = <<>>
    /\ res = NoCall
    /\ LazyIdle

\* sampler.sample(random_state, n, seed)
Sample ==
    /\ \E n \in 0..MaxN : \E out \in sample(arg_range_dict, kwarg_range_dict, n) :
          samples' = [n |-> n, exc |-> "ok", val |-> out]
    /\ UNCHANGED <<arg_range_dict, kwarg_range_dict, viewVars, lazyVars>>

NextSampler == Sample

SpecSampler == InitSampler /\ [][NextSampler]_vars

-----------------------------------------------------------------------------
(* ConstantFNInput *)

RECURSIVE Sum(_)
Sum(seq) == IF seq = <<>> THEN 0 ELSE Head(seq) + Sum(Tail(seq))

\* one call fn(*args, **kwargs) of the wrapped callable: "counter" increments
\* its counter and returns it plus its arguments, "const" returns its arguments
Invoke(fn, args, kwargs, env) ==
    LET c == env.counter + 1
        given == Sum(args) + Sum([i \in 1..Len(kwargs) |-> kwargs[i][2]])
        ret == IF fn = "counter" THEN c + given ELSE given
    IN  [env |-> [counter |-> c,
                  log |-> Append(env.log, [args |-> args, kwargs |-> kwargs, ret |-> ret])],
         ret |-> ret]

\* _Function.__init__: the callable is kept as self.fn
_FunctionInit(function) == function

\* ConstantFNInput.__init__
ConstantFNInput(function, args, kwargs) ==
    [fn |-> _FunctionInit(function), args |-> args, kwargs |-> kwargs]

\* a ConstantFNInput.value that keeps the first result
value_cached(self, env) ==
    IF env.log # <<>> THEN [env |-> env, ret |-> env.log[1].ret]
    ELSE Invoke(self.fn, self.args, self.kwargs, env)

\* ConstantFNInput.value
value(self, env) == Invoke(self.fn, self.args, self.kwargs, env)

Callables == {"counter", "const"}
ArgLists == UNION {[1..n -> 1..2] : n \in 0..2}
KwargDicts == {<<>>} \cup {<< <<"offset", v>> >> : v \in 1..2}

InitLazy ==
    /\ cfi \in {ConstantFNInput(f, a, k) : f \in Callables, a \in ArgLists, k \in KwargDicts}
    /\ fnenv = [counter |-> 0, log |-> <<>>]
    /\ returned = <<>>
    /\ heap = <<>>
    /\ res = NoCall
    /\ SamplerIdle

\* x = cfi.value
Access ==
    /\ Len(returned) < MaxAccess
    /\ LET r == value(cfi, fnenv)
       IN  /\ fnenv' = r.env
           /\ returned' = Append(returned, r.ret)
    /\ UNCHANGED <<cfi, viewVars, samplerVars>>

NextLazy == Access

SpecLazy == InitLazy /\ [][NextLazy]_vars

-----------------------------------------------------------------------------
(* What the claims speak of *)

\* the element at position p (from 1) of a view
ElementAt(view, p) ==
    IF view.cls = "DictInputs" THEN view.values[p][2] ELSE view.values[p]

\* the leaves below x in depth-first order, ascending positions first, each with
\* the positions (from 0) on the route from the root to it
RECURSIVE Routes(_, _, _)
RECURSIVE RoutesFrom(_, _, _, _)
Routes(h, x, route) ==
    IF x.kind = "view" THEN RoutesFrom(h, h[x.n], 1, route)
    ELSE <<[route |-> route, leaf |-> x]>>

RoutesFrom(h, view, p, route) ==
    IF p > len(view) THEN <<>>
    ELSE Routes(h, ElementAt(view, p), Append(route, p - 1))
           \o RoutesFrom(h, view, p + 1, route)

\* the decimal positions of a route joined by underscores
RECURSIVE JoinRoute(_)
JoinRoute(route) ==
    IF Len(route) = 1 THEN str(route[1])
    ELSE str(route[1]) \o "_" \o JoinRoute(Tail(route))

\* the views one step below view a
Below(h, a) == {b \in 1..Len(h) : \E p \in 1..len(h[a]) : ElementAt(h[a], p) = PyRef(b)}

\* the views of S and the views reachable from them through their elements
RECURSIVE ReachFrom(_, _)
ReachFrom(h, S) ==
    LET next == S \cup UNION {Below(h, a) : a \in S}
    IN  IF next = S THEN S ELSE ReachFrom(h, next)

\* the structure under x contains a view that contains itself
Cyclic(h, x) ==
    /\ x.kind = "view"
    /\ \E a \in ReachFrom(h, {x.n}) : a \in ReachFrom(h, Below(h, a))

\* no two entries of a sequence are equal
Distinct(seq) == \A i, j \in 1..Len(seq) : i # j => seq[i] # seq[j]

\* every element of the view is a leaf
OnlyLeaves(view) == \A p \in 1..len(view) : ElementAt(view, p).kind # "view"

IsListFlatten == res.op = "ListInputs.flatten" /\ res.arg.kind = "view"
IsDictFlatten == res.op = "DictInputs.flatten" /\ res.arg.kind = "view"
IsGetOn(cls) == res.op = "get" /\ heap[res.view].cls = cls

-----------------------------------------------------------------------------
(* The claims *)

\* C1: for a nested structure of ListInputs, the walk of flatten returns two
\* lists of equal length whose k-th entries are the k-th leaf in depth-first,
\* ascending-position order and the underscore-joined decimal positions on the
\* route from the root view to that leaf.
C1_FlattenPaths ==
    IsListFlatten =>
        LET w == res.out.walk
            r == Routes(heap, res.arg, <<>>)
        IN  /\ w.exc = "ok"
            /\ Len(w.idxs) = Len(w.values)
            /\ Len(w.idxs) = Len(r)
            /\ \A k \in 1..Len(r) :
                  /\ w.values[k] = r[k].leaf
                  /\ w.idxs[k] = PyStr(JoinRoute(r[k].route))

\* a three-level structure [[[a, b], c], d] has been flattened
C1_Witness ==
    /\ IsListFlatten
    /\ res.out.walk.idxs = <<PyStr("0_0_0"), PyStr("0_0_1"), PyStr("0_1"), PyStr("1")>>

\* C2 as claimed: flattening a ListInputs of leaves only returns the leaves
\* unchanged and in order, and the walk gives each of them the path None.
C2_Original ==
    (IsListFlatten /\ OnlyLeaves(heap[res.view])) =>
        /\ res.out.walk.exc = "ok"
        /\ res.out.out.values = heap[res.view].values
        /\ res.out.walk.values = heap[res.view].values
        /\ Len(res.out.walk.idxs) = len(heap[res.view])
        /\ \A k \in 1..Len(res.out.walk.idxs) : res.out.walk.idxs[k] = PyNone

\* C2 as amended: flattening a ListInputs of leaves only returns the leaves
\* unchanged and in order, and the walk gives the leaf at position k the path
\* str(k); None is the path of a leaf that is itself the argument of the walk.
C2_FlatPaths ==
    /\ (IsListFlatten /\ OnlyLeaves(heap[res.view])) =>
          /\ res.out.walk.exc = "ok"
          /\ res.out.out.values = heap[res.view].values
          /\ res.out.walk.values = heap[res.view].values
          /\ Len(res.out.walk.idxs) = len(heap[res.view])
          /\ \A k \in 1..Len(res.out.walk.idxs) :
                res.out.walk.idxs[k] = PyStr(str(k - 1))
    /\ (res.op = "ListInputs.flatten" /\ res.arg.kind # "view") =>
          /\ res.out.walk.idxs = <<PyNone>>
          /\ res.out.walk.values = <<res.arg>>

\* a ListInputs of two leaves has been flattened
C2_Witness ==
    /\ IsListFlatten
    /\ OnlyLeaves(heap[res.view])
    /\ len(heap[res.view]) = 2
    /\ res.out.walk.idxs = <<PyStr("0"), PyStr("1")>>

\* C3: get(x) of a DictInputs returns the value stored under x when x is one of
\* the keys, also when x is an integer; otherwise, for an integer x that is a
\* position, the value of the x-th key in insertion order.
C3_DictGet ==
    IsGetOn("DictInputs") =>
        LET items == heap[res.view].values
            x == res.arg
            isKey == \E p \in 1..Len(items) : items[p][1] = x
        IN  /\ isKey =>
                  /\ res.out.exc = "ok"
                  /\ \E p \in 1..Len(items) : items[p] = <<x, res.out.val>>
            /\ (~isKey /\ x.kind = "int" /\ 0 <= x.n /\ x.n < Len(items)) =>
                  /\ res.out.exc = "ok"
                  /\ res.out.val = items[x.n + 1][2]

\* get(0) on a dict whose second key is the integer 0 has returned the value
\* stored under the key 0
C3_Witness ==
    /\ IsGetOn("DictInputs")
    /\ heap[res.view].keys = <<PyStr("a"), PyInt(0)>>
    /\ res.arg = PyInt(0)
    /\ res.out = Ok(heap[res.view].values[2][2])

\* C4 as claimed: every view has as many type tags as elements, whether its
\* types were inferred or supplied by the caller.
C4_Original ==
    \A a \in 1..Len(heap) : Len(heap[a].types) = len(heap[a])

\* C5 as claimed: sample returns n mappings, each over every positional and
\* every keyword argument name, each value inside that name's range.
C5_Original ==
    samples.exc = "ok" =>
        /\ Len(samples.val) = samples.n
        /\ \A i \in 1..Len(samples.val) :
              /\ DOMAIN samples.val[i] = DOMAIN arg_range_dict \cup DOMAIN kwarg_range_dict
              /\ \A k \in DOMAIN arg_range_dict \ DOMAIN kwarg_range_dict :
                    samples.val[i][k] \in uniform(arg_range_dict[k])
              /\ \A k \in DOMAIN kwarg_range_dict :
                    samples.val[i][k] \in uniform(kwarg_range_dict[k])

C7_Original ==
    (res.op = "ListInputs.flatten" /\ Cyclic(heap, res.arg)) =>
        res.out.walk.exc = "CyclicStructure"

\* C8 as claimed: get(i) of a ListInputs of length n yields an index error for
\* every integer i outside 0..n-1, negative integers included.
C8_Original ==
    (IsGetOn("ListInputs") /\ res.arg.kind = "int") =>
        LET n == len(heap[res.view])
            i == res.arg.n
        IN  /\ (i < 0 \/ i >= n) => res.out = Raise("IndexError")
            /\ (0 <= i /\ i < n) => res.out = Ok(heap[res.view].values[i + 1])

\* C8 as amended: get(i) of a ListInputs of length n yields an index error and
\* no value for every integer i < -n or i >= n, returns the element at position
\* i for 0 <= i < n and the element at position n + i for -n <= i < 0, and a get
\* leaves the views unchanged.
C8_ListGetState ==
    (IsGetOn("ListInputs") /\ res.arg.kind = "int") =>
        LET n == len(heap[res.view])
            i == res.arg.n
        IN  /\ (i < -n \/ i >= n) => res.out = Raise("IndexError")
            /\ (0 <= i /\ i < n) => res.out = Ok(heap[res.view].values[i + 1])
            /\ (-n <= i /\ i < 0) => res.out = Ok(heap[res.view].values[n + i + 1])

C8_ListGet == [](C8_ListGetState) /\ [][res'.op = "get" => heap' = heap]_vars

\* get(-1) on a ListInputs of two elements has returned the last one
C8_Witness ==
    /\ IsGetOn("ListInputs")
    /\ len(heap[res.view]) = 2
    /\ res.arg = PyInt(-1)
    /\ res.out = Ok(heap[res.view].values[2])

\* C9: iterating a DictInputs or ListInputs yields length() pairs with pairwise
\* distinct indices, in key insertion order (DictInputs) or ascending position
\* (ListInputs); each yielded value is the element at that place and what get
\* returns for the yielded index; iterating again yields the same, and an
\* iteration leaves the views unchanged.
C9_IterateState ==
    res.op = "iter" =>
        LET view == heap[res.view]
            pairs == res.out
        IN  /\ Len(pairs) = len(view)
            /\ Distinct([k \in 1..Len(pairs) |-> pairs[k][1]])
            /\ \A k \in 1..Len(pairs) :
                  /\ pairs[k][1] = IF view.cls = "DictInputs" THEN view.values[k][1]
                                   ELSE PyInt(k - 1)
                  /\ pairs[k][2] = ElementAt(view, k)
                  /\ GetItem(view, pairs[k][1]) = Ok(pairs[k][2])
            /\ Iter(view) = pairs

C9_Iterate == [](C9_IterateState) /\ [][res'.op = "iter" => heap' = heap]_vars

\* a DictInputs with the keys "b", 0 has been iterated
C9_Witness ==
    /\ res.op = "iter"
    /\ heap[res.view].cls = "DictInputs"
    /\ Len(res.out) = 2
    /\ res.out[1][1] = PyStr("b")
    /\ res.out[2][1] = PyInt(0)

\* C10 as claimed: flattening a nested structure of DictInputs with string keys
\* gives distinct leaves distinct paths, so the view DictInputs.flatten returns
\* has as many elements as the structure has leaves and holds every leaf.
C10_Original ==
    (IsDictFlatten /\ res.out.walk.exc = "ok" /\ Distinct(res.out.walk.values)) =>
        LET w == res.out.walk
            r == Routes(heap, res.arg, <<>>)
        IN  /\ Distinct(w.idxs)
            /\ len(res.out.out) = Len(r)
            /\ \A k \in 1..Len(r) :
                  \E p \in 1..len(res.out.out) : res.out.out.values[p][2] = r[k].leaf

====
